---- MODULE Spec2Model ----
(***************************************************************************)
(* Rental scheduling and lifecycle of the car-rental application:          *)
(* the Rental model (availability query, cancel/complete, pre-save hook)   *)
(* and the /api/rentals and /api/rentals/[id] request handlers behind the  *)
(* withAuth and validateRequest middleware.                                *)
(*                                                                         *)
(* Dates are instants counted in ticks (TicksPerDay ticks to a day) from   *)
(* an arbitrary origin.  A request body is a record whose DOMAIN is the    *)
(* set of keys the JSON body carries.  A collection is a bag of documents: *)
(* the _id of a document is its identity in the bag, and a request that    *)
(* names an id addresses one stored document or none.                      *)
(***************************************************************************)
EXTENDS Integers, FiniteSets, Sequences, Bags, TLC

VARIABLES
    rentals,    \* the Rental collection: a bag of documents
    vehicles,   \* the Vehicle collection: a set of [id, dailyRate] documents
    resp,       \* the response written for the most recent request
    procs       \* concurrent createRental requests: position and locals

vars == <<rentals, vehicles, resp, procs>>

----------------------------------------------------------------------------
(* Bounds of the model *)

MaxTick == 2
MaxRentals == 2
TicksPerDay == 2

Ticks == 0..MaxTick

VehicleDocs ==
    { [id |-> "v1", dailyRate |-> 50], [id |-> "v2", dailyRate |-> 20] }

ObjectIdStrings == {"v1", "v2", "v9"}

NoPrincipal == [sub |-> "none", role |-> "none"]
Customer == [sub |-> "u1", role |-> "customer"]
Admin == [sub |-> "a1", role |-> "admin"]

Has(body, k) == k \in DOMAIN body

\* r with the keys of d added or overwritten, and r with key k removed.
With(r, d) ==
    [k \in (DOMAIN r) \cup (DOMAIN d) |-> IF k \in DOMAIN d THEN d[k] ELSE r[k]]
Without(r, k) == [j \in (DOMAIN r) \ {k} |-> r[j]]

----------------------------------------------------------------------------
(* The Rental model (rentalSchema, in src/models/User.ts) *)

StatusEnum == {"pending", "active", "completed", "cancelled"}
InsuranceEnum == {"basic", "premium", "full"}
PaymentMethodEnum == {"creditCard", "debitCard", "paypal"}

\* QueryMatches without its status filter.
QueryMatches_NoStatus(r, vehicleId, startDate, endDate) ==
    /\ r.vehicle = vehicleId
    /\ \/ (r.startDate < endDate /\ r.endDate > startDate)
       \/ (r.startDate >= startDate /\ r.startDate < endDate)
       \/ (r.endDate > startDate /\ r.endDate <= endDate)

\* QueryMatches with closed comparisons in its first clause.
QueryMatches_Closed(r, vehicleId, startDate, endDate) ==
    /\ r.vehicle = vehicleId
    /\ r.status \in {"pending", "active"}
    /\ \/ (r.startDate <= endDate /\ r.endDate >= startDate)
       \/ (r.startDate >= startDate /\ r.startDate < endDate)
       \/ (r.endDate > startDate /\ r.endDate <= endDate)

\* QueryMatches with a status filter that lets only cancelled rentals go.
QueryMatches_CompletedBlocks(r, vehicleId, startDate, endDate) ==
    /\ r.vehicle = vehicleId
    /\ r.status \in {"pending", "active", "completed"}
    /\ \/ (r.startDate < endDate /\ r.endDate > startDate)
       \/ (r.startDate >= startDate /\ r.startDate < endDate)
       \/ (r.endDate > startDate /\ r.endDate <= endDate)

\* QueryMatches without its vehicle filter.
QueryMatches_AnyVehicle(r, vehicleId, startDate, endDate) ==
    /\ r.status \in {"pending", "active"}
    /\ \/ (r.startDate < endDate /\ r.endDate > startDate)
       \/ (r.startDate >= startDate /\ r.startDate < endDate)
       \/ (r.endDate > startDate /\ r.endDate <= endDate)

\* QueryMatches with <= for < in the first comparison of its first clause.
QueryMatches_StartClosed(r, vehicleId, startDate, endDate) ==
    /\ r.vehicle = vehicleId
    /\ r.status \in {"pending", "active"}
    /\ \/ (r.startDate <= endDate /\ r.endDate > startDate)
       \/ (r.startDate >= startDate /\ r.startDate < endDate)
       \/ (r.endDate > startDate /\ r.endDate <= endDate)

\* The filter of the find() call in checkVehicleAvailability.
QueryMatches(r, vehicleId, startDate, endDate) ==
    /\ r.vehicle = vehicleId
    /\ r.status \in {"pending", "active"}
    /\ \/ (r.startDate < endDate /\ r.endDate > startDate)
       \/ (r.startDate >= startDate /\ r.startDate < endDate)
       \/ (r.endDate > startDate /\ r.endDate <= endDate)

\* Collection operations of the store client.
insertOne(store, doc) == store (+) SetToBag({doc})
deleteOne(store, doc) == store (-) SetToBag({doc})
replaceOne(store, doc, after) == insertOne(deleteOne(store, doc), after)

checkVehicleAvailability(store, vehicleId, startDate, endDate) ==
    { r \in BagToSet(store) :
        QueryMatches(r, vehicleId, startDate, endDate) } = {}

\* ceilDays rounding down.
ceilDays_Floor(elapsed) == elapsed \div TicksPerDay

\* Math.ceil(ms / (1000 * 3600 * 24)) of an elapsed time given in ticks.
ceilDays(elapsed) ==
    IF elapsed >= 0
    THEN (elapsed + TicksPerDay - 1) \div TicksPerDay
    ELSE -((-elapsed) \div TicksPerDay)

\* The duration virtual.
duration(r) == ceilDays(r.endDate - r.startDate)

\* Schema validation that save() runs before the pre('save') hook.
SchemaValid(r) ==
    /\ r.status \in StatusEnum
    /\ r.insuranceOption \in InsuranceEnum
    /\ r.paymentMethod \in PaymentMethodEnum
    /\ r.additionalDrivers >= 0
    /\ r.totalCost >= 0

\* The calls of next the pre('save') hook makes, in order: the
\* availability query runs for a new document or when a date was modified,
\* next(error) follows a negative answer, and next() ends the hook in
\* every case.
hookNextCalls(store, r, isNew, datesModified) ==
    IF /\ isNew \/ datesModified
       /\ ~checkVehicleAvailability(store, r.vehicle, r.startDate, r.endDate)
    THEN <<"error", "ok">>
    ELSE <<"ok">>

\* preSaveOk when the last call of next decides.
preSaveOk_LastNext(store, r, isNew, datesModified) ==
    LET calls == hookNextCalls(store, r, isNew, datesModified)
    IN  calls[Len(calls)] = "ok"

\* pre('save'): the first call of next decides whether the save goes on;
\* later calls are ignored.
preSaveOk(store, r, isNew, datesModified) ==
    Head(hookNextCalls(store, r, isNew, datesModified)) = "ok"

\* save() of a stored document: <<saved, document in the store after>>.
save(store, before, after, datesModified) ==
    IF SchemaValid(after) /\ preSaveOk(store, after, FALSE, datesModified)
    THEN <<TRUE, after>>
    ELSE <<FALSE, before>>

\* A method that sets the status and saves: a failed save throws.
setStatusAndSave(store, r, status) ==
    LET saved == save(store, r, [r EXCEPT !.status = status], FALSE) IN
    IF saved[1] THEN <<"ok", saved[2]>> ELSE <<"throw", r>>

\* cancel() without its guard.
cancel_Always(store, r) == setStatusAndSave(store, r, "cancelled")

\* cancel(): <<"ok" or "throw", document in the store after>>.
cancel(store, r) ==
    IF r.status # "pending" /\ r.status # "active"
    THEN <<"throw", r>>
    ELSE setStatusAndSave(store, r, "cancelled")

\* complete(): <<"ok" or "throw", document in the store after>>.
complete(store, r) ==
    IF r.status # "active"
    THEN <<"throw", r>>
    ELSE setStatusAndSave(store, r, "completed")

----------------------------------------------------------------------------
(* sanitizeInput: src/utils/sanitizer.ts *)

\* Strings lose the characters $ { } ( ) and surrounding blanks.
sanitizeString(s) ==
    CASE s = " " -> ""
      [] s = "(v1)" -> "v1"
      [] s = "lot$" -> "lot"
      [] OTHER -> s

StringKeys ==
    {"vehicleId", "pickupLocation", "dropoffLocation", "insuranceOption",
     "paymentMethod", "status", "paymentStatus", "user"}

\* Objects are rebuilt key by key; numbers and dates are returned as they are.
sanitizeInput(body) ==
    [k \in DOMAIN body |->
        IF k \in StringKeys THEN sanitizeString(body[k]) ELSE body[k]]

----------------------------------------------------------------------------
(* Middleware: src/middleware/auth.ts, src/middleware/validateRequest.ts *)

\* withAuth without the administrator test for the methods other than GET.
withAuth_NoRoleTest(principal, method) ==
    IF principal = NoPrincipal THEN 401 ELSE 0

\* withAuth for the rentals routes: 0 when the request reaches the wrapped
\* handler, otherwise the status code answered.
withAuth(principal, method) ==
    IF principal = NoPrincipal THEN 401
    ELSE IF method = "POST" THEN 0
    ELSE IF principal.role # "admin" /\ method # "GET" THEN 403
    ELSE 0

\* The yup rentalSchema, applied to the body as received.
yupValid(body) ==
    /\ Has(body, "vehicleId") /\ body.vehicleId # ""
    /\ Has(body, "startDate")
    /\ Has(body, "endDate")
    /\ body.endDate >= body.startDate
    /\ Has(body, "pickupLocation") /\ body.pickupLocation # ""
    /\ Has(body, "dropoffLocation") /\ body.dropoffLocation # ""
    /\ (Has(body, "additionalDrivers") => body.additionalDrivers >= 0)
    /\ Has(body, "insuranceOption") /\ body.insuranceOption \in InsuranceEnum
    /\ Has(body, "paymentMethod") /\ body.paymentMethod \in PaymentMethodEnum
    /\ Has(body, "totalCost") /\ body.totalCost >= 0

\* validateRequest validates only POST requests to /api/rentals.
validateRequest(method, body) ==
    method = "POST" => yupValid(body)

----------------------------------------------------------------------------
(* Responses *)

Response(op, code, msg) == [op |-> op, code |-> code, msg |-> msg]

MsgUnauthorized == "Unauthorized"
MsgForbidden == "Forbidden"
MsgYup == "yup validation errors"
MsgMissing == "Missing required fields"
MsgRange == "Invalid date range"
MsgUnavailable == "Vehicle is not available for the selected dates"
MsgNoVehicle == "Vehicle not found"
MsgNoRental == "Rental not found"
MsgNoUpdates == "No valid updates provided"
MsgInternal == "Internal server error"
MsgSaveUnavailable ==
    "Internal server error: Vehicle is not available for the selected dates"
MsgCannotCancel ==
    "Internal server error: Only pending or active rentals can be cancelled"
MsgCannotComplete ==
    "Internal server error: Only active rentals can be completed"
MsgCreated == "created"
MsgUpdated == "updated"
MsgDeleted == "Rental deleted successfully"

----------------------------------------------------------------------------
(* POST /api/rentals: src/pages/api/rentals/index.ts *)

Truthy(sb, k) == Has(sb, k) /\ sb[k] # ""

\* The required-fields test of handlePost.
requiredPresent(sb) ==
    /\ Truthy(sb, "vehicleId")
    /\ Has(sb, "startDate")
    /\ Has(sb, "endDate")
    /\ Truthy(sb, "pickupLocation")
    /\ Truthy(sb, "dropoffLocation")
    /\ Truthy(sb, "insuranceOption")
    /\ Truthy(sb, "paymentMethod")

\* new mongoose.Types.ObjectId(vehicleId) throws on a malformed id.
isObjectId(s) == s \in ObjectIdStrings

findVehicle(vstore, vehicleId) == { v \in vstore : v.id = vehicleId }

\* newRental taking user and totalCost from the body when it has them.
newRental_BodyOwner(principal, sb, vehicle) ==
    [ user |-> IF Has(sb, "user") THEN sb.user ELSE principal.sub,
      vehicle |-> sb.vehicleId,
      startDate |-> sb.startDate,
      endDate |-> sb.endDate,
      totalCost |-> IF Has(sb, "totalCost") THEN sb.totalCost
                    ELSE ceilDays(sb.endDate - sb.startDate) * vehicle.dailyRate,
      status |-> "pending",
      pickupLocation |-> sb.pickupLocation,
      dropoffLocation |-> sb.dropoffLocation,
      additionalDrivers |->
          IF Has(sb, "additionalDrivers") THEN sb.additionalDrivers ELSE 0,
      insuranceOption |-> sb.insuranceOption,
      paymentMethod |-> sb.paymentMethod,
      paymentStatus |-> "pending" ]

\* newRental taking status and paymentStatus from the body when it has them.
newRental_BodyStatus(principal, sb, vehicle) ==
    [ user |-> principal.sub,
      vehicle |-> sb.vehicleId,
      startDate |-> sb.startDate,
      endDate |-> sb.endDate,
      totalCost |-> ceilDays(sb.endDate - sb.startDate) * vehicle.dailyRate,
      status |-> IF Has(sb, "status") THEN sb.status ELSE "pending",
      pickupLocation |-> sb.pickupLocation,
      dropoffLocation |-> sb.dropoffLocation,
      additionalDrivers |->
          IF Has(sb, "additionalDrivers") THEN sb.additionalDrivers ELSE 0,
      insuranceOption |-> sb.insuranceOption,
      paymentMethod |-> sb.paymentMethod,
      paymentStatus |->
          IF Has(sb, "paymentStatus") THEN sb.paymentStatus ELSE "pending" ]

\* The document handlePost constructs.
newRental(principal, sb, vehicle) ==
    [ user |-> principal.sub,
      vehicle |-> sb.vehicleId,
      startDate |-> sb.startDate,
      endDate |-> sb.endDate,
      totalCost |-> ceilDays(sb.endDate - sb.startDate) * vehicle.dailyRate,
      status |-> "pending",
      pickupLocation |-> sb.pickupLocation,
      dropoffLocation |-> sb.dropoffLocation,
      additionalDrivers |->
          IF Has(sb, "additionalDrivers") THEN sb.additionalDrivers ELSE 0,
      insuranceOption |-> sb.insuranceOption,
      paymentMethod |-> sb.paymentMethod,
      paymentStatus |-> "pending" ]

\* invalidRange that rejects nothing.
invalidRange_Never(start, end) == FALSE

\* invalidRange with > for >=.
invalidRange_Strict(start, end) == start > end

\* The date-range test of handlePost: TRUE when the request is rejected.
invalidRange(start, end) == start >= end

\* handlePost up to its availability read: the response that ends the
\* request there, or code 0 when it goes on.
postBeforeRead(principal, body) ==
    LET sb == sanitizeInput(body) IN
    IF withAuth(principal, "POST") # 0
    THEN Response("POST", withAuth(principal, "POST"), MsgUnauthorized)
    ELSE IF ~validateRequest("POST", body)
    THEN Response("POST", 400, MsgYup)
    ELSE IF ~requiredPresent(sb)
    THEN Response("POST", 400, MsgMissing)
    ELSE IF invalidRange(sb.startDate, sb.endDate)
    THEN Response("POST", 400, MsgRange)
    ELSE IF ~isObjectId(sb.vehicleId)
    THEN Response("POST", 500, MsgInternal)
    ELSE Response("POST", 0, "")

\* postAfterRead without the test of the availability answer.
postAfterRead_NoCheck(vstore, sb, isAvailable) ==
    IF findVehicle(vstore, sb.vehicleId) = {}
    THEN Response("POST", 404, MsgNoVehicle)
    ELSE Response("POST", 0, "")

\* From the availability answer to the constructed document: the response
\* that ends the request, or code 0 when save() is reached.
postAfterRead(vstore, sb, isAvailable) ==
    IF ~isAvailable
    THEN Response("POST", 400, MsgUnavailable)
    ELSE IF findVehicle(vstore, sb.vehicleId) = {}
    THEN Response("POST", 404, MsgNoVehicle)
    ELSE Response("POST", 0, "")

\* save() of the new document: schema validation, then the pre-save hook
\* against the store as it is at that moment.
saveNewOk(store, doc) ==
    SchemaValid(doc) /\ preSaveOk(store, doc, TRUE, FALSE)

\* The whole of a createRental request run without interleaving:
\* <<response, store after>>.
handlePost(store, vstore, principal, body) ==
    LET sb == sanitizeInput(body)
        r1 == postBeforeRead(principal, body)
        avail == checkVehicleAvailability(store, sb.vehicleId,
                                          sb.startDate, sb.endDate)
        r2 == postAfterRead(vstore, sb, avail)
        vehicle == CHOOSE v \in findVehicle(vstore, sb.vehicleId) : TRUE
        doc == newRental(principal, sb, vehicle)
    IN  IF r1.code # 0 THEN <<r1, store>>
        ELSE IF r2.code # 0 THEN <<r2, store>>
        ELSE IF ~saveNewOk(store, doc)
        THEN <<Response("POST", 500, MsgSaveUnavailable), store>>
        ELSE <<Response("POST", 201, MsgCreated), insertOne(store, doc)>>

----------------------------------------------------------------------------
(* PUT and DELETE /api/rentals/[id]: src/pages/api/rentals/[id].ts *)

\* What findById can return for the id of a request: one stored document,
\* or nothing for an id that names none.
findByIdResults(store) == {{}} \cup { {r} : r \in BagToSet(store) }

allowedUpdates == {"status", "additionalDrivers", "insuranceOption"}

\* filterUpdates without the allow-list.
filterUpdates_All(sb) == sb

\* The allow-list filter over the keys of the sanitized body.
filterUpdates(sb) == [k \in (DOMAIN sb) \cap allowedUpdates |-> sb[k]]

\* Object.assign(rental, updates).
assign(r, updates) ==
    [k \in DOMAIN r |-> IF k \in DOMAIN updates THEN updates[k] ELSE r[k]]

\* applyUpdates that assigns the updates other than status before it calls
\* cancel() or complete().
applyUpdates_AssignFirst(store, r, updates) ==
    LET rest == [k \in (DOMAIN updates) \ {"status"} |-> updates[k]]
        ra == assign(r, rest)
    IN  IF Has(updates, "status") /\ updates.status = "cancelled"
        THEN IF cancel(store, ra)[1] = "ok"
             THEN <<Response("PUT", 200, MsgUpdated), cancel(store, ra)[2]>>
             ELSE <<Response("PUT", 500, MsgCannotCancel), r>>
        ELSE IF Has(updates, "status") /\ updates.status = "completed"
        THEN IF complete(store, ra)[1] = "ok"
             THEN <<Response("PUT", 200, MsgUpdated), complete(store, ra)[2]>>
             ELSE <<Response("PUT", 500, MsgCannotComplete), r>>
        ELSE IF save(store, r, assign(r, updates), FALSE)[1]
             THEN <<Response("PUT", 200, MsgUpdated), assign(r, updates)>>
             ELSE <<Response("PUT", 500, MsgInternal), r>>

\* The three branches of handlePut on the filtered updates:
\* <<response, document after>>.
applyUpdates(store, r, updates) ==
    IF Has(updates, "status") /\ updates.status = "cancelled"
    THEN IF cancel(store, r)[1] = "ok"
         THEN <<Response("PUT", 200, MsgUpdated), cancel(store, r)[2]>>
         ELSE <<Response("PUT", 500, MsgCannotCancel), r>>
    ELSE IF Has(updates, "status") /\ updates.status = "completed"
    THEN IF complete(store, r)[1] = "ok"
         THEN <<Response("PUT", 200, MsgUpdated), complete(store, r)[2]>>
         ELSE <<Response("PUT", 500, MsgCannotComplete), r>>
    ELSE IF save(store, r, assign(r, updates), FALSE)[1]
         THEN <<Response("PUT", 200, MsgUpdated), assign(r, updates)>>
         ELSE <<Response("PUT", 500, MsgInternal), r>>

\* The whole of an updateRental request: <<response, store after>>.
handlePut(store, principal, found, body) ==
    LET sb == sanitizeInput(body)
        updates == filterUpdates(sb)
        r == CHOOSE x \in found : TRUE
        out == applyUpdates(store, r, updates)
    IN  IF withAuth(principal, "PUT") = 401
        THEN <<Response("PUT", 401, MsgUnauthorized), store>>
        ELSE IF withAuth(principal, "PUT") = 403
        THEN <<Response("PUT", 403, MsgForbidden), store>>
        ELSE IF found = {}
        THEN <<Response("PUT", 404, MsgNoRental), store>>
        ELSE IF principal.role # "admin" /\ r.user # principal.sub
        THEN <<Response("PUT", 403, MsgForbidden), store>>
        ELSE IF DOMAIN updates = {}
        THEN <<Response("PUT", 400, MsgNoUpdates), store>>
        ELSE <<out[1], replaceOne(store, r, out[2])>>

\* handleDelete refusing to remove a rental that is pending or active.
handleDelete_Guarded(store, principal, found) ==
    IF withAuth(principal, "DELETE") # 0 \/ principal.role # "admin"
    THEN <<Response("DELETE", withAuth(principal, "DELETE"), MsgForbidden),
           store>>
    ELSE IF found = {}
    THEN <<Response("DELETE", 404, MsgNoRental), store>>
    ELSE IF (CHOOSE x \in found : TRUE).status \in {"pending", "active"}
    THEN <<Response("DELETE", 400, MsgForbidden), store>>
    ELSE <<Response("DELETE", 200, MsgDeleted),
           deleteOne(store, CHOOSE x \in found : TRUE)>>

\* The whole of a deleteRental request: <<response, store after>>.
handleDelete(store, principal, found) ==
    IF withAuth(principal, "DELETE") = 401
    THEN <<Response("DELETE", 401, MsgUnauthorized), store>>
    ELSE IF withAuth(principal, "DELETE") = 403
    THEN <<Response("DELETE", 403, MsgForbidden), store>>
    ELSE IF principal.role # "admin"
    THEN <<Response("DELETE", 403, MsgForbidden), store>>
    ELSE IF found = {}
    THEN <<Response("DELETE", 404, MsgNoRental), store>>
    ELSE <<Response("DELETE", 200, MsgDeleted),
           deleteOne(store, CHOOSE x \in found : TRUE)>>

----------------------------------------------------------------------------
(* The Vehicle model (src/models/Vehicle.ts) and the vehicle routes
   /api/vehicles (src/pages/api/vehicles/index.ts) and /api/vehicles/[id]
   (src/pages/api/vehicles/[id].ts).  A vehicle document is a record with
   the keys id and dailyRate, and the keys lastServiced and nextServiceDue
   when they are set; the other fields of a vehicle are taken as given and
   valid. *)

ServiceIntervalDays == 90

\* What Date.parse gives for a string that is no date.
NaN == -1

MsgAdminOnly == "Unauthorized: Admin access required"
MsgBadServiced == "Invalid lastServiced date"
MsgValidation == "Validation failed"
MsgNoFields == "No valid fields to update"
MsgUpdateError == "Error updating vehicle"
MsgVehicleDeleted == "Vehicle deleted successfully"

calculateNextServiceDue(lastServiced) ==
    lastServiced + ServiceIntervalDays * TicksPerDay

\* vehicleSchema.pre('save').
vehiclePreSave(v, lastServicedModified) ==
    IF lastServicedModified
    THEN With(v, [nextServiceDue |->
                     v.lastServiced + ServiceIntervalDays * TicksPerDay])
    ELSE v

\* needsService with > for >=.
needsService_Strict(v, now) ==
    IF ~Has(v, "nextServiceDue") THEN FALSE ELSE now > v.nextServiceDue

\* needsService() of a vehicle document when the clock reads `now`.
needsService(v, now) ==
    IF ~Has(v, "nextServiceDue") THEN FALSE ELSE now >= v.nextServiceDue

\* What findById and its variants can return for the id of a request.
findVehicleResults(vstore) == {{}} \cup { {v} : v \in vstore }

\* The fields of a body that the schema of the model knows.
vehiclePaths == {"dailyRate", "lastServiced", "nextServiceDue"}

\* The dailyRate rule shared by the yup schema and the model's validators.
rateValid(data) == Has(data, "dailyRate") => data.dailyRate >= 0

\* $set of findByIdAndUpdate: no save hook runs.
setFields(v, data) ==
    With(v, [k \in (DOMAIN data) \cap vehiclePaths |-> data[k]])

\* lastServiced and nextServiceDue as handlePost and handlePut of
\* /api/vehicles derive them from the body.
servicedData(sb) ==
    IF Has(sb, "lastServiced")
    THEN [lastServiced |-> sb.lastServiced,
          nextServiceDue |-> calculateNextServiceDue(sb.lastServiced)]
    ELSE << >>

\* POST /api/vehicles with the id the store gives the new document:
\* <<response, store after>>.
vehiclesHandlePost(vstore, principal, body, id) ==
    LET sb == sanitizeInput(body)
        vehicleData == With([id |-> id], With(
            IF Has(sb, "dailyRate") THEN [dailyRate |-> sb.dailyRate]
            ELSE << >>, servicedData(sb)))
    IN  IF withAuth(principal, "POST") # 0
        THEN <<Response("vehicles.POST", 401, MsgUnauthorized), vstore>>
        ELSE IF principal.role # "admin"
        THEN <<Response("vehicles.POST", 403, MsgAdminOnly), vstore>>
        ELSE IF Has(sb, "lastServiced") /\ sb.lastServiced = NaN
        THEN <<Response("vehicles.POST", 400, MsgBadServiced), vstore>>
        ELSE IF ~Has(vehicleData, "dailyRate") \/ ~rateValid(vehicleData)
        THEN <<Response("vehicles.POST", 400, MsgValidation), vstore>>
        ELSE <<Response("vehicles.POST", 201, MsgCreated),
               vstore \cup { vehiclePreSave(vehicleData,
                                            Has(vehicleData, "lastServiced")) }>>

\* The fields handlePut of /api/vehicles copies from the body: a field
\* whose value is falsy is skipped.
putUpdateData(sb) ==
    With(IF Has(sb, "dailyRate") /\ sb.dailyRate # 0
         THEN [dailyRate |-> sb.dailyRate] ELSE << >>,
         servicedData(sb))

\* PUT /api/vehicles?id=...: <<response, store after>>.
vehiclesHandlePut(vstore, principal, found, body) ==
    LET sb == sanitizeInput(body)
        updateData == putUpdateData(sb)
        v == CHOOSE x \in found : TRUE
    IN  IF withAuth(principal, "PUT") = 401
        THEN <<Response("vehicles.PUT", 401, MsgUnauthorized), vstore>>
        ELSE IF withAuth(principal, "PUT") = 403 \/ principal.role # "admin"
        THEN <<Response("vehicles.PUT", 403, MsgAdminOnly), vstore>>
        ELSE IF Has(sb, "lastServiced") /\ sb.lastServiced = NaN
        THEN <<Response("vehicles.PUT", 400, MsgBadServiced), vstore>>
        ELSE IF ~rateValid(updateData)
        THEN <<Response("vehicles.PUT", 400, MsgValidation), vstore>>
        ELSE IF found = {}
        THEN <<Response("vehicles.PUT", 404, MsgNoVehicle), vstore>>
        ELSE <<Response("vehicles.PUT", 200, MsgUpdated),
               (vstore \ {v}) \cup {setFields(v, updateData)}>>

\* PUT /api/vehicles/[id]: the sanitized body is the $set of the update:
\* <<response, store after>>.
vehicleIdHandlePut(vstore, principal, found, body) ==
    LET sb == sanitizeInput(body)
        v == CHOOSE x \in found : TRUE
    IN  IF withAuth(principal, "PUT") = 401
        THEN <<Response("vehicles/id.PUT", 401, MsgUnauthorized), vstore>>
        ELSE IF withAuth(principal, "PUT") = 403
        THEN <<Response("vehicles/id.PUT", 403, MsgForbidden), vstore>>
        ELSE IF DOMAIN sb = {}
        THEN <<Response("vehicles/id.PUT", 400, MsgNoFields), vstore>>
        ELSE IF \/ ~rateValid(sb)
                \/ Has(sb, "lastServiced") /\ sb.lastServiced = NaN
                \/ Has(sb, "nextServiceDue") /\ sb.nextServiceDue = NaN
        THEN <<Response("vehicles/id.PUT", 500, MsgUpdateError), vstore>>
        ELSE IF found = {}
        THEN <<Response("vehicles/id.PUT", 404, MsgNoVehicle), vstore>>
        ELSE <<Response("vehicles/id.PUT", 200, MsgUpdated),
               (vstore \ {v}) \cup {setFields(v, sb)}>>

\* DELETE /api/vehicles?id=...: <<response, store after>>.
vehiclesHandleDelete(vstore, principal, found) ==
    IF withAuth(principal, "DELETE") = 401
    THEN <<Response("vehicles.DELETE", 401, MsgUnauthorized), vstore>>
    ELSE IF withAuth(principal, "DELETE") = 403 \/ principal.role # "admin"
    THEN <<Response("vehicles.DELETE", 403, MsgAdminOnly), vstore>>
    ELSE IF found = {}
    THEN <<Response("vehicles.DELETE", 404, MsgNoVehicle), vstore>>
    ELSE <<Response("vehicles.DELETE", 200, MsgVehicleDeleted),
           vstore \ found>>

\* DELETE /api/vehicles/[id]: <<response, store after>>.
vehicleIdHandleDelete(vstore, principal, found) ==
    IF withAuth(principal, "DELETE") = 401
    THEN <<Response("vehicles/id.DELETE", 401, MsgUnauthorized), vstore>>
    ELSE IF withAuth(principal, "DELETE") = 403
    THEN <<Response("vehicles/id.DELETE", 403, MsgForbidden), vstore>>
    ELSE IF found = {}
    THEN <<Response("vehicles/id.DELETE", 404, MsgNoVehicle), vstore>>
    ELSE <<Response("vehicles/id.DELETE", 200, MsgVehicleDeleted),
           vstore \ found>>

----------------------------------------------------------------------------
(* Requests *)

Principals == {NoPrincipal, Customer, Admin}

BaseBody(v, s, e) ==
    [ vehicleId |-> v, startDate |-> s, endDate |-> e,
      pickupLocation |-> "lot", dropoffLocation |-> "lot",
      insuranceOption |-> "basic", paymentMethod |-> "creditCard",
      totalCost |-> 0 ]

WindowBodies == { BaseBody(v, s, e) : v \in {"v1", "v2"}, s \in Ticks, e \in Ticks }

\* Bodies of a client that also sends fields the server is meant to set
\* (status, paymentStatus, user, totalCost), over the windows and the
\* degenerate windows with endpoints 0 and MaxTick.
ClientBase(v, s, e, st) ==
    With(BaseBody(v, s, e),
         [status |-> st, paymentStatus |-> "paid", user |-> "a1",
          totalCost |-> 7, additionalDrivers |-> 0])

EdgeTicks == {0, MaxTick}

ClientBodies ==
    { ClientBase(v, s, e, st) :
        v \in {"v1", "(v1)", "v9", "zz"}, s \in EdgeTicks, e \in EdgeTicks,
        st \in {"active", "completed"} }
    \cup UNION { { With(b, [pickupLocation |-> " "]),
                   With(b, [dropoffLocation |-> "lot$"]),
                   With(b, [insuranceOption |-> "gold"]),
                   With(b, [additionalDrivers |-> -1]),
                   Without(b, "paymentMethod"),
                   Without(b, "totalCost") }
                 : b \in { ClientBase("v1", s, e, "active") :
                             s \in EdgeTicks, e \in EdgeTicks } }

ClientPatches ==
    { [status |-> st] : st \in StatusEnum }
    \cup { [additionalDrivers |-> -1],
           [insuranceOption |-> "gold"],
           [status |-> "cancelled", additionalDrivers |-> 1],
           [startDate |-> 0, totalCost |-> 0] }

----------------------------------------------------------------------------
(* Requests served one at a time *)

IdleProcs == [p \in {1, 2} |-> [pc |-> "idle"]]

Init ==
    /\ rentals = EmptyBag
    /\ vehicles \in SUBSET VehicleDocs
    /\ resp = Response("none", 0, "")
    /\ procs = IdleProcs

CreateRental(principal, body) ==
    /\ BagCardinality(rentals) < MaxRentals
    /\ LET out == handlePost(rentals, vehicles, principal, body) IN
        /\ resp' = out[1]
        /\ rentals' = out[2]
    /\ UNCHANGED <<vehicles, procs>>

UpdateRental(principal, found, body) ==
    /\ LET out == handlePut(rentals, principal, found, body) IN
        /\ resp' = out[1]
        /\ rentals' = out[2]
    /\ UNCHANGED <<vehicles, procs>>

DeleteRental(principal, found) ==
    /\ LET out == handleDelete(rentals, principal, found) IN
        /\ resp' = out[1]
        /\ rentals' = out[2]
    /\ UNCHANGED <<vehicles, procs>>

\* The scheduling and lifecycle engine: an authenticated customer books,
\* an administrator updates and deletes.
StatusBodies ==
    { [status |-> st] : st \in StatusEnum \cup {"bogus"} }
    \cup { [status |-> "cancelled", additionalDrivers |-> 1],
           [startDate |-> 0, totalCost |-> 0] }

Next ==
    \/ \E body \in WindowBodies : CreateRental(Customer, body)
    \/ \E found \in findByIdResults(rentals), body \in StatusBodies :
            UpdateRental(Admin, found, body)
    \/ \E found \in findByIdResults(rentals) : DeleteRental(Admin, found)

Spec == Init /\ [][Next]_vars

\* The handlers behind the whole middleware chain, for any principal and
\* for bodies that carry more than the handler asks for.
ClientNext ==
    \/ \E principal \in Principals, body \in ClientBodies :
            CreateRental(principal, body)
    \/ \E principal \in Principals, found \in findByIdResults(rentals),
          body \in ClientPatches :
            UpdateRental(principal, found, body)
    \/ \E principal \in Principals, found \in findByIdResults(rentals) :
            DeleteRental(principal, found)

ClientSpec == Init /\ [][ClientNext]_vars

----------------------------------------------------------------------------
(* createRental requests served concurrently: each await of handlePost and
   of save() is a point where the other request may run *)

Procs == {1, 2}

\* withAuth, validateRequest and handlePost up to the availability query.
Receive(p, principal, body) ==
    /\ procs[p].pc = "idle"
    /\ LET r1 == postBeforeRead(principal, body) IN
        procs' = [procs EXCEPT ![p] =
                    IF r1.code # 0
                    THEN [pc |-> "done", resp |-> r1]
                    ELSE [pc |-> "read", principal |-> principal,
                          sb |-> sanitizeInput(body)]]
    /\ UNCHANGED <<rentals, vehicles, resp>>

\* await Rental.checkVehicleAvailability(...), the vehicle lookup and the
\* construction of the document.
ReadAvailability(p) ==
    /\ procs[p].pc = "read"
    /\ LET sb == procs[p].sb
           avail == checkVehicleAvailability(rentals, sb.vehicleId,
                                             sb.startDate, sb.endDate)
           r2 == postAfterRead(vehicles, sb, avail)
           vehicle == CHOOSE v \in findVehicle(vehicles, sb.vehicleId) : TRUE
       IN  procs' = [procs EXCEPT ![p] =
                       IF r2.code # 0
                       THEN [pc |-> "done", resp |-> r2, sb |-> sb]
                       ELSE [pc |-> "save", sb |-> sb,
                             doc |-> newRental(procs[p].principal, sb, vehicle)]]
    /\ UNCHANGED <<rentals, vehicles, resp>>

\* save(): validation and the query of the pre-save hook.
PreSaveHook(p) ==
    /\ procs[p].pc = "save"
    /\ procs' = [procs EXCEPT ![p] =
                   IF saveNewOk(rentals, procs[p].doc)
                   THEN [pc |-> "insert", sb |-> procs[p].sb,
                         doc |-> procs[p].doc]
                   ELSE [pc |-> "done", sb |-> procs[p].sb,
                         resp |-> Response("POST", 500, MsgSaveUnavailable)]]
    /\ UNCHANGED <<rentals, vehicles, resp>>

\* save(): the insert, and the 201 response.
Insert(p) ==
    /\ procs[p].pc = "insert"
    /\ rentals' = insertOne(rentals, procs[p].doc)
    /\ procs' = [procs EXCEPT ![p] =
                   [pc |-> "done", sb |-> procs[p].sb,
                    resp |-> Response("POST", 201, MsgCreated)]]
    /\ UNCHANGED <<vehicles, resp>>

ConcNext ==
    \/ \E p \in Procs, body \in WindowBodies : Receive(p, Customer, body)
    \/ \E p \in Procs : ReadAvailability(p)
    \/ \E p \in Procs : PreSaveHook(p)
    \/ \E p \in Procs : Insert(p)

ConcSpec == Init /\ [][ConcNext]_vars

----------------------------------------------------------------------------
(* Pricing and windows: bookings over windows of up to three days, of a
   vehicle whose daily rate is one of several *)

DailyRates == {0, 1, 50}

CostTicks == 0..(3 * TicksPerDay)

CostBodies ==
    { With(BaseBody("v1", s, e), [totalCost |-> 7]) :
        s \in CostTicks, e \in CostTicks }

CostInit ==
    /\ rentals = EmptyBag
    /\ vehicles \in { {[id |-> "v1", dailyRate |-> d]} : d \in DailyRates }
    /\ resp = Response("none", 0, "")
    /\ procs = IdleProcs

CostNext ==
    \/ \E body \in CostBodies : CreateRental(Customer, body)
    \/ \E found \in findByIdResults(rentals) : DeleteRental(Admin, found)

CostSpec == CostInit /\ [][CostNext]_vars

----------------------------------------------------------------------------
(* Patching: one rental at a time, updated with bodies that carry every
   field of a rental next to the fields of the allow-list *)

ForeignFields ==
    [ user |-> "a1", vehicle |-> "v2", vehicleId |-> "v2",
      startDate |-> 0, endDate |-> 1, totalCost |-> 0,
      pickupLocation |-> "desk", dropoffLocation |-> "desk",
      paymentMethod |-> "paypal", paymentStatus |-> "paid" ]

FramePatches ==
    { ForeignFields }
    \cup { With(ForeignFields, [status |-> st]) : st \in StatusEnum }
    \cup { With(ForeignFields, a) :
             a \in { [additionalDrivers |-> 1],
                     [insuranceOption |-> "premium"],
                     [status |-> "active", additionalDrivers |-> 1,
                      insuranceOption |-> "premium"],
                     [status |-> "cancelled", additionalDrivers |-> 1] } }

PatchNext ==
    \/ \E body \in WindowBodies :
            rentals = EmptyBag /\ CreateRental(Customer, body)
    \/ \E principal \in {Customer, Admin},
          found \in findByIdResults(rentals), body \in FramePatches :
            UpdateRental(principal, found, body)
    \/ \E found \in findByIdResults(rentals) : DeleteRental(Admin, found)

PatchSpec == Init /\ [][PatchNext]_vars

----------------------------------------------------------------------------
(* Re-dating: the dates of a stored rental are assigned and the document
   is saved, which is the case isModified('startDate') or
   isModified('endDate') of the pre-save hook *)

MsgSaved == "saved"

\* rental.startDate = startDate; rental.endDate = endDate; rental.save().
\* A failed save rejects with the error of the hook and stores nothing.
RedateRental(found, startDate, endDate) ==
    /\ found # {}
    /\ LET r == CHOOSE x \in found : TRUE
           after == [r EXCEPT !.startDate = startDate, !.endDate = endDate]
           saved == save(rentals, r, after,
                         startDate # r.startDate \/ endDate # r.endDate)
       IN  /\ rentals' = replaceOne(rentals, r, saved[2])
           /\ resp' = IF saved[1]
                      THEN Response("save", 0, MsgSaved)
                      ELSE Response("save", 0, MsgUnavailable)
    /\ UNCHANGED <<vehicles, procs>>

RedateNext ==
    \/ \E body \in WindowBodies : CreateRental(Customer, body)
    \/ \E found \in findByIdResults(rentals),
          body \in { [status |-> "active"], [status |-> "cancelled"] } :
            UpdateRental(Admin, found, body)
    \/ \E found \in findByIdResults(rentals), s \in Ticks, e \in Ticks :
            s < e /\ RedateRental(found, s, e)

RedateSpec == Init /\ [][RedateNext]_vars

----------------------------------------------------------------------------
(* The vehicle routes and the save of a vehicle document *)

VehicleIds == {"v1", "v2"}

\* Ids the store can give a new vehicle: ids are never used twice.
FreshIds ==
    { id \in VehicleIds :
        /\ findVehicle(vehicles, id) = {}
        /\ \A r \in BagToSet(rentals) : r.vehicle # id }

CreateVehicle(principal, body) ==
    /\ \E id \in FreshIds :
          LET out == vehiclesHandlePost(vehicles, principal, body, id) IN
            /\ resp' = out[1]
            /\ vehicles' = out[2]
    /\ UNCHANGED <<rentals, procs>>

UpdateVehicle(principal, found, body) ==
    /\ LET out == vehiclesHandlePut(vehicles, principal, found, body) IN
        /\ resp' = out[1]
        /\ vehicles' = out[2]
    /\ UNCHANGED <<rentals, procs>>

UpdateVehicleById(principal, found, body) ==
    /\ LET out == vehicleIdHandlePut(vehicles, principal, found, body) IN
        /\ resp' = out[1]
        /\ vehicles' = out[2]
    /\ UNCHANGED <<rentals, procs>>

DeleteVehicle(principal, found) ==
    /\ LET out == vehiclesHandleDelete(vehicles, principal, found) IN
        /\ resp' = out[1]
        /\ vehicles' = out[2]
    /\ UNCHANGED <<rentals, procs>>

DeleteVehicleById(principal, found) ==
    /\ LET out == vehicleIdHandleDelete(vehicles, principal, found) IN
        /\ resp' = out[1]
        /\ vehicles' = out[2]
    /\ UNCHANGED <<rentals, procs>>

\* vehicle.lastServiced = lastServiced; vehicle.save().
SaveVehicle(found, lastServiced) ==
    /\ found # {}
    /\ LET v == CHOOSE x \in found : TRUE
           modified == ~Has(v, "lastServiced") \/ v.lastServiced # lastServiced
       IN  vehicles' = (vehicles \ {v})
              \cup { vehiclePreSave(With(v, [lastServiced |-> lastServiced]),
                                    modified) }
    /\ resp' = Response("vehicle.save", 0, MsgSaved)
    /\ UNCHANGED <<rentals, procs>>

VehicleBodies ==
    { [dailyRate |-> 50], [dailyRate |-> -1], [lastServiced |-> 0],
      [dailyRate |-> 50, lastServiced |-> NaN],
      [dailyRate |-> 50, nextServiceDue |-> 0] }
    \cup { [dailyRate |-> 50, lastServiced |-> t] : t \in EdgeTicks }

VehiclePatches ==
    { << >>, [dailyRate |-> 20], [dailyRate |-> 0], [dailyRate |-> -1],
      [lastServiced |-> NaN] }
    \cup { [lastServiced |-> t] : t \in EdgeTicks }
    \cup { [nextServiceDue |-> t] : t \in EdgeTicks }

ServiceInit ==
    /\ rentals = EmptyBag
    /\ vehicles = {}
    /\ resp = Response("none", 0, "")
    /\ procs = IdleProcs

ServiceNext ==
    \/ \E principal \in {Customer, Admin}, body \in VehicleBodies :
            CreateVehicle(principal, body)
    \/ \E principal \in {Customer, Admin},
          found \in findVehicleResults(vehicles), body \in VehiclePatches :
            UpdateVehicle(principal, found, body)
    \/ \E principal \in {Customer, Admin},
          found \in findVehicleResults(vehicles), body \in VehiclePatches :
            UpdateVehicleById(principal, found, body)
    \/ \E found \in findVehicleResults(vehicles), t \in EdgeTicks :
            SaveVehicle(found, t)
    \/ \E found \in findVehicleResults(vehicles) :
            DeleteVehicle(Admin, found)

ServiceSpec == ServiceInit /\ [][ServiceNext]_vars

----------------------------------------------------------------------------
(* The fleet: rentals are booked and cancelled while an administrator
   deletes vehicles *)

FleetNext ==
    \/ \E body \in WindowBodies : CreateRental(Customer, body)
    \/ \E found \in findByIdResults(rentals),
          body \in { [status |-> "active"], [status |-> "cancelled"] } :
            UpdateRental(Admin, found, body)
    \/ \E principal \in {Customer, Admin},
          found \in findVehicleResults(vehicles) :
            DeleteVehicle(principal, found)
    \/ \E principal \in {Customer, Admin},
          found \in findVehicleResults(vehicles) :
            DeleteVehicleById(principal, found)

FleetSpec == Init /\ [][FleetNext]_vars

----------------------------------------------------------------------------
(* Maintenance: the vehicle routes and saves, and needsService() called at
   times around the day the service falls due *)

ServiceClock ==
    {0} \cup { d + ServiceIntervalDays * TicksPerDay + k :
                 d \in EdgeTicks, k \in {-1, 0, 1} }

\* vehicle.needsService() at time `now`; the answer is what the caller gets.
CheckService(found, now) ==
    /\ found # {}
    /\ resp' = [ op |-> "vehicle.needsService", code |-> 0,
                 msg |-> IF needsService(CHOOSE x \in found : TRUE, now)
                         THEN "true" ELSE "false",
                 at |-> now ]
    /\ UNCHANGED <<rentals, vehicles, procs>>

MaintenanceNext ==
    \/ ServiceNext
    \/ \E found \in findVehicleResults(vehicles), now \in ServiceClock :
            CheckService(found, now)

MaintenanceSpec == ServiceInit /\ [][MaintenanceNext]_vars

----------------------------------------------------------------------------
(* Dates: bookings over every pair of dates, in order or not, and updates
   whose bodies carry dates next to the fields of the allow-list *)

DatePatches ==
    { With(a, d) :
        a \in { [status |-> "active"], [status |-> "cancelled"],
                [additionalDrivers |-> 0], [insuranceOption |-> "basic"] },
        d \in { [startDate |-> MaxTick, endDate |-> 0],
                [startDate |-> 0, endDate |-> 0],
                [endDate |-> 0] } }

DatesNext ==
    \/ \E body \in WindowBodies : CreateRental(Customer, body)
    \/ \E found \in findByIdResults(rentals), body \in DatePatches :
            UpdateRental(Admin, found, body)

DatesSpec == Init /\ [][DatesNext]_vars

----------------------------------------------------------------------------
(* The pre-save hook under both of its conditions: new documents saved by
   concurrent createRental requests, and stored documents re-dated *)

HookNext ==
    \/ ConcNext
    \/ \E found \in findByIdResults(rentals), s \in Ticks, e \in Ticks :
            s < e /\ RedateRental(found, s, e)

HookSpec == Init /\ [][HookNext]_vars

----------------------------------------------------------------------------
(* Mixed patches: one rental at a time, cancelled or completed with bodies
   that also carry additionalDrivers or insuranceOption *)

MixedPatches ==
    { With([status |-> st], a) :
        st \in {"cancelled", "completed"},
        a \in { [additionalDrivers |-> 1], [insuranceOption |-> "premium"],
                [additionalDrivers |-> 1, insuranceOption |-> "premium"] } }
    \cup { [status |-> "active"], [additionalDrivers |-> 2],
           [insuranceOption |-> "full"] }

MixedNext ==
    \/ \E body \in WindowBodies :
            rentals = EmptyBag /\ CreateRental(Customer, body)
    \/ \E found \in findByIdResults(rentals), body \in MixedPatches :
            UpdateRental(Admin, found, body)
    \/ \E found \in findByIdResults(rentals) : DeleteRental(Admin, found)

MixedSpec == Init /\ [][MixedNext]_vars

----------------------------------------------------------------------------
(* The read routes: GET /api/rentals (handleGet of
   src/pages/api/rentals/index.ts) and GET /api/rentals/[id] (handleGet of
   src/pages/api/rentals/[id].ts).  A response that carries rentals has
   them in the field data, a bag.  The store keeps no createdAt, so a page
   is any bag of the right size out of the matching rentals. *)

MsgOk == "ok"

\* The list query without the user filter.
listQuery_AnyUser(principal, status, r) ==
    status # "" => r.status = status

\* The query of handleGet: the principal's own rentals unless an
\* administrator asks, of the status asked for when one is given.
listQuery(principal, status, r) ==
    /\ principal.role # "admin" => r.user = principal.sub
    /\ status # "" => r.status = status

findRentals(store, principal, status) ==
    [r \in { x \in BagToSet(store) : listQuery(principal, status, x) }
        |-> store[r]]

\* The number of documents left by skip((page - 1) * limit).limit(limit).
pageLength(total, page, limit) ==
    LET left == total - (page - 1) * limit
    IN  IF left <= 0 THEN 0 ELSE IF left < limit THEN left ELSE limit

\* The responses a list request may get.
handleGet(store, principal, status, page, limit) ==
    LET matching == findRentals(store, principal, status)
        total == BagCardinality(matching)
    IN  IF withAuth(principal, "GET") = 401
        THEN { Response("GET", 401, MsgUnauthorized) }
        ELSE { With(Response("GET", 200, MsgOk),
                    [data |-> d, totalItems |-> total]) :
                 d \in { b \in SubBag(matching) :
                           BagCardinality(b) = pageLength(total, page, limit) } }

\* The response of a single-rental read; reading the fields of a vehicle
\* that is no longer stored throws.
rentalIdHandleGet(store, vstore, principal, found) ==
    LET r == CHOOSE x \in found : TRUE IN
    IF withAuth(principal, "GET") = 401
    THEN Response("rentals/id.GET", 401, MsgUnauthorized)
    ELSE IF found = {}
    THEN Response("rentals/id.GET", 404, MsgNoRental)
    ELSE IF principal.role # "admin" /\ r.user # principal.sub
    THEN Response("rentals/id.GET", 403, MsgForbidden)
    ELSE IF findVehicle(vstore, r.vehicle) = {}
    THEN Response("rentals/id.GET", 500, MsgInternal)
    ELSE With(Response("rentals/id.GET", 200, MsgOk), [data |-> SetToBag({r})])

GetRentals(principal, status, page, limit, out) ==
    /\ out \in handleGet(rentals, principal, status, page, limit)
    /\ resp' = out
    /\ UNCHANGED <<rentals, vehicles, procs>>

GetRental(principal, found) ==
    /\ resp' = rentalIdHandleGet(rentals, vehicles, principal, found)
    /\ UNCHANGED <<rentals, vehicles, procs>>

AccessBodies ==
    { BaseBody(v, 0, MaxTick) : v \in {"v1", "v2"} }
    \cup { Without(BaseBody("v1", 0, MaxTick), "totalCost") }

AccessPatches == { [status |-> "cancelled"] }

StatusFilters == {"", "pending"}
Pages == {1, 2}
Limits == {1, 10}

AccessNext ==
    \/ \E principal \in Principals, body \in AccessBodies :
            CreateRental(principal, body)
    \/ \E principal \in Principals, found \in findByIdResults(rentals),
          body \in AccessPatches :
            UpdateRental(principal, found, body)
    \/ \E principal \in Principals, found \in findByIdResults(rentals) :
            DeleteRental(principal, found)
    \/ \E principal \in Principals, status \in StatusFilters,
          page \in Pages, limit \in Limits :
            \E out \in handleGet(rentals, principal, status, page, limit) :
                GetRentals(principal, status, page, limit, out)
    \/ \E principal \in Principals, found \in findByIdResults(rentals) :
            GetRental(principal, found)
    \/ \E found \in findVehicleResults(vehicles) :
            DeleteVehicleById(Admin, found)

AccessSpec == Init /\ [][AccessNext]_vars

----------------------------------------------------------------------------
(* createRental requests of a client that sends its own user and totalCost *)

Tampers ==
    { [totalCost |-> 0], [totalCost |-> 7], [totalCost |-> -1],
      [user |-> "a1", totalCost |-> 0], [user |-> "u9", totalCost |-> 7] }

TamperBodies ==
    { With(BaseBody(v, 0, e), d) :
        v \in {"v1", "v2"}, e \in {1, MaxTick}, d \in Tampers }
    \cup { Without(BaseBody(v, 0, MaxTick), "totalCost") : v \in {"v1", "v2"} }

TamperNext ==
    \/ \E principal \in {Customer, Admin}, body \in TamperBodies :
            CreateRental(principal, body)
    \/ \E found \in findByIdResults(rentals) :
            UpdateRental(Admin, found, [status |-> "cancelled"])
    \/ \E found \in findByIdResults(rentals) : DeleteRental(Admin, found)

TamperSpec == Init /\ [][TamperNext]_vars

----------------------------------------------------------------------------
(* Properties of the engine *)

Blocking(r) == r.status \in {"pending", "active"}
Terminal(r) == r.status \in {"completed", "cancelled"}

\* Half-open windows [s1, e1) and [s2, e2) intersect.
Intersect(s1, e1, s2, e2) == s1 < e2 /\ e1 > s2

TheDoc(found) == CHOOSE x \in found : TRUE

\* A step of the request `act` taken where `pre` holds ends where `post`
\* holds: (pre /\ act) => post, written so that the request is evaluated
\* only for the steps that do not end in `post`.
Ensures(pre, act, post) == (pre /\ ~post) => ~act

\* C1: for every vehicle, no two stored rentals whose status is pending or
\* active have intersecting half-open windows.
C1_NoDoubleBooking ==
    \A r1 \in BagToSet(rentals), r2 \in BagToSet(rentals) :
        ( /\ r1 # r2 \/ CopiesIn(r1, rentals) > 1
          /\ r1.vehicle = r2.vehicle
          /\ Blocking(r1) /\ Blocking(r2) )
        => ~Intersect(r1.startDate, r1.endDate, r2.startDate, r2.endDate)

ConflictAnswer(r) == r.msg \in {MsgUnavailable, MsgSaveUnavailable}

\* C2: when two concurrent createRental requests for the same existing
\* vehicle and the same window have both been answered, exactly one was
\* answered 201, the other got the "not available" error, and exactly one
\* pending or active rental of that vehicle and window is stored.
C2_OneWinner ==
    ( /\ procs[1].pc = "done" /\ procs[2].pc = "done"
      /\ Has(procs[1], "sb") /\ Has(procs[2], "sb")
      /\ procs[1].sb.vehicleId = procs[2].sb.vehicleId
      /\ procs[1].sb.startDate = procs[2].sb.startDate
      /\ procs[1].sb.endDate = procs[2].sb.endDate
      /\ findVehicle(vehicles, procs[1].sb.vehicleId) # {} )
    => /\ \E p \in Procs, q \in Procs :
             /\ p # q
             /\ procs[p].resp.code = 201
             /\ ConflictAnswer(procs[q].resp)
       /\ BagCardinality(rentals) = 1

\* C3: for every vehicle and window with start < end, the three-clause query
\* selects exactly the stored rentals of the vehicle that are pending or
\* active and intersect the window, and checkVehicleAvailability is true
\* exactly when there is none.
C3_AvailabilityIsOverlap ==
    \A v \in ObjectIdStrings, s \in Ticks, e \in Ticks :
        s < e =>
          /\ \A r \in BagToSet(rentals) :
                QueryMatches(r, v, s, e)
                  <=> ( r.vehicle = v /\ Blocking(r)
                        /\ r.startDate < e /\ r.endDate > s )
          /\ checkVehicleAvailability(rentals, v, s, e)
                <=> ~\E r \in BagToSet(rentals) :
                        r.vehicle = v /\ Blocking(r)
                        /\ r.startDate < e /\ r.endDate > s

\* C3 witness: the availability check has just answered "available" for a
\* window that intersects a cancelled rental of the same vehicle, and the
\* new rental is stored next to it.
C3_Witness ==
    /\ resp.code = 201
    /\ \E r1 \in BagToSet(rentals), r2 \in BagToSet(rentals) :
          /\ r1.vehicle = r2.vehicle
          /\ r1.status = "cancelled" /\ r2.status = "pending"
          /\ Intersect(r1.startDate, r1.endDate, r2.startDate, r2.endDate)

\* C4: every updateRental request on a rental whose status is completed or
\* cancelled is rejected and leaves the store as it was.
C4_TerminalIsFinal ==
    [][ \A found \in findByIdResults(rentals), body \in StatusBodies :
          Ensures( /\ resp'.op = "PUT"
                   /\ found # {}
                   /\ Terminal(TheDoc(found)),
                   UpdateRental(Admin, found, body),
                   resp'.code # 200 /\ rentals' = rentals ) ]_vars

TransitionTable ==
    { <<"pending", "active">>, <<"pending", "cancelled">>,
      <<"active", "cancelled">>, <<"active", "completed">> }

\* C5: an updateRental request on a pending or active rental either leaves
\* its status as it was or moves it along one of the four transitions of
\* the table.
C5_OnlyTableTransitions ==
    [][ \A found \in findByIdResults(rentals), body \in StatusBodies :
          Ensures( /\ resp'.op = "PUT"
                   /\ found # {}
                   /\ Blocking(TheDoc(found)),
                   UpdateRental(Admin, found, body),
                   \E st \in StatusEnum :
                     /\ rentals' = replaceOne(rentals, TheDoc(found),
                                       [TheDoc(found) EXCEPT !.status = st])
                     /\ \/ st = TheDoc(found).status
                        \/ <<TheDoc(found).status, st>> \in TransitionTable )
      ]_vars

\* What cancel() (status cancelled) and complete() (status completed) are
\* to do with rental r: succeed and set the status, or fail and change
\* nothing.
MethodOutcome(r, target) ==
    LET ok == IF target = "cancelled"
              THEN r.status \in {"pending", "active"}
              ELSE r.status = "active"
    IN  IF ok
        THEN /\ resp'.code = 200
             /\ rentals' = replaceOne(rentals, r, [r EXCEPT !.status = target])
        ELSE /\ resp'.code # 200
             /\ rentals' = rentals

\* C6: a request that calls cancel() sets the status to cancelled and
\* succeeds when the rental is pending or active, and fails leaving the
\* store unchanged when it is completed or cancelled; a request that calls
\* complete() sets the status to completed and succeeds when the rental is
\* active, and fails leaving the store unchanged otherwise.
C6_CancelComplete ==
    [][ \A found \in findByIdResults(rentals), body \in ClientPatches :
          Ensures( /\ resp'.op = "PUT"
                   /\ found # {}
                   /\ Has(body, "status")
                   /\ body.status \in {"cancelled", "completed"},
                   UpdateRental(Admin, found, body),
                   MethodOutcome(TheDoc(found), body.status) ) ]_vars

\* C6 witness: complete() has just failed on a rental that is still pending.
C6_Witness ==
    /\ resp.msg = MsgCannotComplete
    /\ \E r \in BagToSet(rentals) : r.status = "pending"

\* C7: a createRental request for a window that intersects a stored pending
\* or active rental of the same vehicle fails with the "not available"
\* error of the handler and leaves the store as it was.
C7_OverlapRejected ==
    [][ \A body \in WindowBodies :
          Ensures( /\ resp'.op = "POST"
                   /\ body.startDate < body.endDate
                   /\ \E r \in BagToSet(rentals) :
                         /\ r.vehicle = body.vehicleId /\ Blocking(r)
                         /\ body.startDate < r.endDate
                         /\ body.endDate > r.startDate,
                   CreateRental(Customer, body),
                   /\ resp'.code >= 400
                   /\ resp'.msg = MsgUnavailable
                   /\ rentals' = rentals ) ]_vars

\* C7 witness: a booking was refused as unavailable while the rental it
\* conflicts with is stored as pending or active.
C7_Witness ==
    /\ resp.op = "POST" /\ resp.msg = MsgUnavailable
    /\ \E r \in BagToSet(rentals) : Blocking(r)

\* C8: a createRental request for a window that touches a stored pending or
\* active rental of the same vehicle at an endpoint, and intersects none,
\* succeeds and stores a pending rental next to the one it touches.
C8_TouchingAccepted ==
    [][ \A body \in WindowBodies :
          Ensures( /\ resp'.op = "POST"
                   /\ body.startDate < body.endDate
                   /\ findVehicle(vehicles, body.vehicleId) # {}
                   /\ \E r \in BagToSet(rentals) :
                         /\ r.vehicle = body.vehicleId /\ Blocking(r)
                         /\ \/ r.endDate = body.startDate
                            \/ r.startDate = body.endDate
                   /\ \A r \in BagToSet(rentals) :
                         (r.vehicle = body.vehicleId /\ Blocking(r))
                           => ~Intersect(r.startDate, r.endDate,
                                         body.startDate, body.endDate),
                   CreateRental(Customer, body),
                   /\ resp'.code = 201
                   /\ \E doc \in BagToSet(rentals') :
                         /\ rentals' = insertOne(rentals, doc)
                         /\ doc.status = "pending"
                         /\ doc.vehicle = body.vehicleId
                         /\ doc.startDate = body.startDate
                         /\ doc.endDate = body.endDate ) ]_vars

\* C8 witness: a booking has just been accepted and two pending rentals of
\* one vehicle are stored whose windows touch.
C8_Witness ==
    /\ resp.code = 201
    /\ \E r1 \in BagToSet(rentals), r2 \in BagToSet(rentals) :
          /\ r1.vehicle = r2.vehicle
          /\ r1.status = "pending" /\ r2.status = "pending"
          /\ r1.endDate = r2.startDate

\* C9: a createRental request of an authenticated principal whose start is
\* not before its end is answered 400 and stores nothing, whatever its
\* other fields are.
C9_BadRangeRejected ==
    [][ \A principal \in {Customer, Admin}, body \in ClientBodies :
          Ensures( /\ resp'.op = "POST"
                   /\ body.startDate >= body.endDate,
                   CreateRental(principal, body),
                   resp'.code = 400 /\ rentals' = rentals ) ]_vars

\* C9 witness: the date-range test of the handler has just rejected a
\* request.
C9_Witness == resp.op = "POST" /\ resp.code = 400 /\ resp.msg = MsgRange

\* C10: a createRental request answered 201 adds exactly one document, and
\* its status and paymentStatus are pending whatever the body carries.
C10_CreatedPending ==
    [][ \A principal \in Principals, body \in ClientBodies :
          Ensures( resp'.code = 201,
                   CreateRental(principal, body),
                   \E doc \in BagToSet(rentals') :
                     /\ rentals' = insertOne(rentals, doc)
                     /\ doc.status = "pending"
                     /\ doc.paymentStatus = "pending" ) ]_vars

\* C10 witness: a rental was just created from a body that carries another
\* status and paymentStatus, and is stored as pending.
C10_Witness ==
    /\ resp.op = "POST" /\ resp.code = 201
    /\ \E r \in BagToSet(rentals) :
          r.status = "pending" /\ r.paymentStatus = "pending"

\* The least number of whole days that covers an elapsed time.
WholeDays(elapsed) ==
    CHOOSE n \in 0..elapsed :
        n * TicksPerDay >= elapsed /\ (n - 1) * TicksPerDay < elapsed

\* C11: a createRental request with start < end that is answered 201 stores
\* a rental whose totalCost is the elapsed time rounded up to whole days
\* times the dailyRate of the vehicle, which is also its duration virtual
\* times the dailyRate; a window of three days at rate 50 costs 150.
C11_TotalCost ==
    [][ \A body \in CostBodies, v \in vehicles :
          Ensures( /\ resp'.code = 201
                   /\ body.startDate < body.endDate
                   /\ v.id = body.vehicleId,
                   CreateRental(Customer, body),
                   \E doc \in BagToSet(rentals') :
                     /\ rentals' = insertOne(rentals, doc)
                     /\ doc.totalCost
                          = WholeDays(body.endDate - body.startDate) * v.dailyRate
                     /\ doc.totalCost = duration(doc) * v.dailyRate
                     /\ ( /\ body.endDate - body.startDate = 3 * TicksPerDay
                          /\ v.dailyRate = 50 )
                        => doc.totalCost = 150 ) ]_vars

\* C11 witness: a rental over a window that is not a whole number of days
\* was just created on a vehicle of rate 50, at the price of the days
\* rounded up.
C11_Witness ==
    /\ resp.op = "POST" /\ resp.code = 201
    /\ \E r \in BagToSet(rentals), v \in vehicles :
          /\ v.dailyRate = 50
          /\ (r.endDate - r.startDate) % TicksPerDay # 0
          /\ r.endDate - r.startDate > TicksPerDay
          /\ r.totalCost = 50 * (((r.endDate - r.startDate) \div TicksPerDay) + 1)

FrameFields ==
    {"user", "vehicle", "startDate", "endDate", "totalCost",
     "pickupLocation", "dropoffLocation", "paymentMethod", "paymentStatus"}

\* C12: an updateRental request, whatever its body carries, replaces the
\* rental by a document that has the same user, vehicle, startDate,
\* endDate, totalCost, pickup and dropoff locations, paymentMethod and
\* paymentStatus, or leaves the store as it was.
C12_UpdateFrame ==
    [][ \A principal \in {Customer, Admin},
           found \in findByIdResults(rentals), body \in FramePatches :
          Ensures( resp'.op = "PUT" /\ found # {},
                   UpdateRental(principal, found, body),
                   \E doc \in BagToSet(rentals') :
                     /\ rentals' = replaceOne(rentals, TheDoc(found), doc)
                     /\ \A k \in FrameFields : doc[k] = TheDoc(found)[k] )
      ]_vars

\* C12 witness: an update whose body also carried another user, vehicle,
\* window, cost, locations and payment fields was just applied, and the
\* rental has the new drivers and insurance and the fields it was created
\* with.
C12_Witness ==
    /\ resp.op = "PUT" /\ resp.code = 200
    /\ \E r \in BagToSet(rentals) :
          /\ r.additionalDrivers = 1 /\ r.insuranceOption = "premium"
          /\ r.user = "u1" /\ r.vehicle = "v1" /\ r.endDate = MaxTick
          /\ r.pickupLocation = "lot" /\ r.paymentMethod = "creditCard"
          /\ r.paymentStatus = "pending"

\* C13: re-dating a pending or active rental to a window that intersects
\* its own current window, and the window of no other pending or active
\* rental of the vehicle, succeeds and stores the new dates.
C13_SelfOverlapRedate ==
    [][ \A found \in findByIdResults(rentals), s \in Ticks, e \in Ticks :
          Ensures( /\ resp'.op = "save"
                   /\ found # {} /\ s < e
                   /\ Blocking(TheDoc(found))
                   /\ Intersect(TheDoc(found).startDate, TheDoc(found).endDate,
                                s, e)
                   /\ \A r \in BagToSet(deleteOne(rentals, TheDoc(found))) :
                         (r.vehicle = TheDoc(found).vehicle /\ Blocking(r))
                           => ~Intersect(r.startDate, r.endDate, s, e),
                   RedateRental(found, s, e),
                   /\ resp'.msg = MsgSaved
                   /\ rentals' = replaceOne(rentals, TheDoc(found),
                                   [TheDoc(found) EXCEPT !.startDate = s,
                                                         !.endDate = e]) )
      ]_vars

\* C14: an updateRental request that asks to cancel a completed or
\* cancelled rental, or to complete a rental that is not active, is
\* answered 400.
C14_IllegalTransition400 ==
    [][ \A found \in findByIdResults(rentals), body \in StatusBodies :
          Ensures( /\ resp'.op = "PUT"
                   /\ found # {}
                   /\ Has(body, "status")
                   /\ \/ body.status = "cancelled" /\ Terminal(TheDoc(found))
                      \/ /\ body.status = "completed"
                         /\ TheDoc(found).status # "active",
                   UpdateRental(Admin, found, body),
                   resp'.code = 400 ) ]_vars

\* C15: a createRental request with start < end for a window that
\* intersects a stored pending or active rental of the same vehicle is
\* answered 409.
C15_Conflict409 ==
    [][ \A body \in WindowBodies :
          Ensures( /\ resp'.op = "POST"
                   /\ body.startDate < body.endDate
                   /\ \E r \in BagToSet(rentals) :
                         /\ r.vehicle = body.vehicleId /\ Blocking(r)
                         /\ Intersect(r.startDate, r.endDate,
                                      body.startDate, body.endDate),
                   CreateRental(Customer, body),
                   resp'.code = 409 ) ]_vars

\* C16: an updateRental request of an authenticated principal on a stored
\* rental is answered 403 exactly when the principal is neither an
\* administrator nor the user of the rental.
C16_OwnerOrAdmin ==
    [][ \A principal \in {Customer, Admin},
           found \in findByIdResults(rentals), body \in ClientPatches :
          Ensures( resp'.op = "PUT" /\ found # {},
                   UpdateRental(principal, found, body),
                   (resp'.code = 403)
                     <=> ( /\ principal.role # "admin"
                           /\ TheDoc(found).user # principal.sub ) ) ]_vars

\* C17: a deleteRental request of an administrator on a stored rental, of
\* any status, removes it and is answered 200; of an authenticated
\* principal that is no administrator it is answered 403 and the store is
\* as it was; of an administrator for an id that names no rental it is
\* answered 404 and the store is as it was.
C17_Delete ==
    [][ \A principal \in {Customer, Admin},
           found \in findByIdResults(rentals) :
          Ensures( resp'.op = "DELETE",
                   DeleteRental(principal, found),
                   IF principal.role # "admin"
                   THEN resp'.code = 403 /\ rentals' = rentals
                   ELSE IF found = {}
                   THEN resp'.code = 404 /\ rentals' = rentals
                   ELSE /\ resp'.code = 200
                        /\ rentals' = deleteOne(rentals, TheDoc(found))
                        /\ BagCardinality(rentals')
                             = BagCardinality(rentals) - 1 ) ]_vars

\* C17 witness: a rental was just deleted while a rental that is still
\* active stays stored, and nothing else.
C17_Witness ==
    /\ resp.op = "DELETE" /\ resp.code = 200
    /\ BagCardinality(rentals) = 1
    /\ \E r \in BagToSet(rentals) : r.status = "active"

\* C18: every stored vehicle that has lastServiced set has nextServiceDue
\* set to lastServiced plus 90 days.
C18_ServiceDue ==
    \A v \in vehicles :
        Has(v, "lastServiced")
          => /\ Has(v, "nextServiceDue")
             /\ v.nextServiceDue = v.lastServiced + 90 * TicksPerDay

\* C19: every stored rental whose status is pending or active refers to a
\* vehicle that is stored.
C19_VehicleOfRentalExists ==
    \A r \in BagToSet(rentals) :
        Blocking(r) => findVehicle(vehicles, r.vehicle) # {}

\* The stored rental r with its window replaced by [s, e).
Redated(r, s, e) == [r EXCEPT !.startDate = s, !.endDate = e]

\* C20: for a stored rental with window A and every window B with
\* start < end, the query of the availability check matches the rental for
\* a request over B exactly when it matches the same rental stored with
\* window B for a request over A.
C20_OverlapSymmetric ==
    \A r \in BagToSet(rentals), s \in CostTicks, e \in CostTicks :
        (s < e /\ r.startDate < r.endDate)
          => ( QueryMatches(r, r.vehicle, s, e)
                 <=> QueryMatches(Redated(r, s, e), r.vehicle,
                                  r.startDate, r.endDate) )

\* C20 witness: a booking was just refused because of a stored pending
\* rental whose window overlaps another window in part, each way round,
\* and touches a third, each way round.
C20_Witness ==
    /\ resp.op = "POST" /\ resp.msg = MsgUnavailable
    /\ \E r \in BagToSet(rentals) :
          /\ r.status = "pending"
          /\ r.startDate > 0 /\ r.endDate - r.startDate > 2
          /\ r.endDate < 3 * TicksPerDay
          /\ QueryMatches(r, r.vehicle, r.startDate - 1, r.startDate + 1)
          /\ QueryMatches(Redated(r, r.startDate - 1, r.startDate + 1),
                          r.vehicle, r.startDate, r.endDate)
          /\ ~QueryMatches(r, r.vehicle, r.endDate, r.endDate + 1)
          /\ ~QueryMatches(Redated(r, r.endDate, r.endDate + 1),
                           r.vehicle, r.startDate, r.endDate)


\* C21: the save of a vehicle whose lastServiced was set to another date d
\* leaves a vehicle for which needsService() at time t is true exactly
\* when t >= d + 90 days; needsService() of a vehicle that has no
\* nextServiceDue is false at every time, and the answer a caller gets is
\* the one of the stored vehicle.
C21_NeedsService ==
    [][ /\ \A found \in findVehicleResults(vehicles), d \in EdgeTicks :
            Ensures( /\ resp'.op = "vehicle.save"
                     /\ found # {}
                     /\ \/ ~Has(TheDoc(found), "lastServiced")
                        \/ TheDoc(found).lastServiced # d,
                     SaveVehicle(found, d),
                     \E w \in vehicles' :
                       /\ w.id = TheDoc(found).id
                       /\ vehicles' = (vehicles \ found) \cup {w}
                       /\ \A t \in ServiceClock :
                             needsService(w, t) <=> t >= d + 90 * TicksPerDay )
        /\ \A found \in findVehicleResults(vehicles), t \in ServiceClock :
            Ensures( resp'.op = "vehicle.needsService" /\ found # {},
                     CheckService(found, t),
                     /\ ~Has(TheDoc(found), "nextServiceDue")
                          => resp'.msg = "false"
                     /\ Has(TheDoc(found), "nextServiceDue")
                          => ( resp'.msg = "true"
                                 <=> t >= TheDoc(found).nextServiceDue ) )
      ]_vars

\* C21 witness: needsService() has just answered true at the very instant
\* that lies 90 days after the lastServiced date of a vehicle.
C21_Witness ==
    /\ resp.op = "vehicle.needsService" /\ resp.msg = "true"
    /\ \E v \in vehicles :
          /\ Has(v, "lastServiced") /\ Has(v, "nextServiceDue")
          /\ v.lastServiced = MaxTick
          /\ resp.at = v.lastServiced + 90 * TicksPerDay
          /\ v.nextServiceDue = resp.at


\* C22: a createRental request with start < end for a vehicle id that names
\* no stored vehicle is answered 404 and leaves the store as it was,
\* whatever rentals of that id are stored.
C22_UnknownVehicle404 ==
    [][ \A body \in WindowBodies :
          Ensures( /\ resp'.op = "POST"
                   /\ body.startDate < body.endDate
                   /\ findVehicle(vehicles, body.vehicleId) = {},
                   CreateRental(Customer, body),
                   resp'.code = 404 /\ rentals' = rentals ) ]_vars


\* The rentals of a store that are of vehicle v.
RentalsOf(store, v) ==
    [r \in { x \in BagToSet(store) : x.vehicle = v } |-> store[r]]

\* C23: a createRental request for vehicle V gets the same response, and
\* stores the same document or none, in the store and in the store that
\* holds its rentals of V and no rental of another vehicle; so it gets the
\* same in every two stores that differ only in rentals of other vehicles.
C23_VehicleIsolation ==
    \A body \in WindowBodies :
      LET own == RentalsOf(rentals, body.vehicleId)
          here == handlePost(rentals, vehicles, Customer, body)
          there == handlePost(own, vehicles, Customer, body)
      IN  /\ there[1] = here[1]
          /\ there[2] (-) own = here[2] (-) rentals

\* C23 witness: a booking was just accepted for a window that intersects
\* the window of a pending rental of another vehicle.
C23_Witness ==
    /\ resp.op = "POST" /\ resp.code = 201
    /\ \E r1 \in BagToSet(rentals), r2 \in BagToSet(rentals) :
          /\ r1.vehicle # r2.vehicle
          /\ r1.status = "pending" /\ r2.status = "pending"
          /\ Intersect(r1.startDate, r1.endDate, r2.startDate, r2.endDate)


\* C24: a createRental request with start < end for a stored vehicle and a
\* window that intersects a cancelled or completed rental of the vehicle,
\* and no pending or active one, succeeds and stores a pending rental
\* over the window.
C24_RebookAfterTerminal ==
    [][ \A body \in WindowBodies :
          Ensures( /\ resp'.op = "POST"
                   /\ body.startDate < body.endDate
                   /\ findVehicle(vehicles, body.vehicleId) # {}
                   /\ \E r \in BagToSet(rentals) :
                         /\ r.vehicle = body.vehicleId /\ Terminal(r)
                         /\ Intersect(r.startDate, r.endDate,
                                      body.startDate, body.endDate)
                   /\ \A r \in BagToSet(rentals) :
                         ( /\ r.vehicle = body.vehicleId
                           /\ Intersect(r.startDate, r.endDate,
                                        body.startDate, body.endDate) )
                           => Terminal(r),
                   CreateRental(Customer, body),
                   /\ resp'.code = 201
                   /\ \E doc \in BagToSet(rentals') :
                         /\ rentals' = insertOne(rentals, doc)
                         /\ doc.status = "pending"
                         /\ doc.vehicle = body.vehicleId
                         /\ doc.startDate = body.startDate
                         /\ doc.endDate = body.endDate ) ]_vars

\* C24 witness: a booking was just accepted over a window that intersects
\* the window of a completed rental of the same vehicle.
C24_Witness ==
    /\ resp.op = "POST" /\ resp.code = 201
    /\ \E r1 \in BagToSet(rentals), r2 \in BagToSet(rentals) :
          /\ r1.vehicle = r2.vehicle
          /\ r1.status = "completed" /\ r2.status = "pending"
          /\ Intersect(r1.startDate, r1.endDate, r2.startDate, r2.endDate)


\* C25: every stored rental has startDate < endDate.
C25_StartBeforeEnd ==
    \A r \in BagToSet(rentals) : r.startDate < r.endDate

\* C25 witness: an update whose body carried dates out of order was just
\* applied to a rental, which has the window it was booked with.
C25_Witness ==
    /\ resp.op = "PUT" /\ resp.code = 200
    /\ \E r \in BagToSet(rentals) :
          /\ r.status = "active"
          /\ r.startDate = 0 /\ r.endDate = MaxTick


\* C26: when the pre-save hook finds the vehicle unavailable, for the new
\* document of a createRental request or for a stored rental whose
\* startDate or endDate was modified, the save fails with the error of the
\* hook and the store is as it was: the request never reaches the insert,
\* and the re-dated rental keeps its dates.
C26_HookAborts ==
    [][ /\ \A p \in Procs :
            Ensures( /\ procs[p].pc = "save"
                     /\ ~checkVehicleAvailability(rentals,
                            procs[p].doc.vehicle, procs[p].doc.startDate,
                            procs[p].doc.endDate),
                     PreSaveHook(p),
                     /\ procs'[p].pc = "done"
                     /\ procs'[p].resp.code = 500
                     /\ procs'[p].resp.msg = MsgSaveUnavailable
                     /\ rentals' = rentals )
        /\ \A found \in findByIdResults(rentals), s \in Ticks, e \in Ticks :
            Ensures( /\ resp'.op = "save"
                     /\ found # {} /\ s < e
                     /\ s # TheDoc(found).startDate
                          \/ e # TheDoc(found).endDate
                     /\ ~checkVehicleAvailability(rentals,
                            TheDoc(found).vehicle, s, e),
                     RedateRental(found, s, e),
                     resp'.msg = MsgUnavailable /\ rentals' = rentals )
      ]_vars

\* C26 witness: the hook has just refused the new document of a request
\* that had passed the availability test of the handler.
C26_Witness ==
    \E p \in Procs :
        /\ procs[p].pc = "done"
        /\ procs[p].resp.msg = MsgSaveUnavailable
        /\ \E r \in BagToSet(rentals) :
              /\ r.vehicle = procs[p].sb.vehicleId
              /\ Intersect(r.startDate, r.endDate,
                           procs[p].sb.startDate, procs[p].sb.endDate)


\* C27: an updateRental request whose body carries status cancelled or
\* completed next to additionalDrivers or insuranceOption leaves
\* additionalDrivers, insuranceOption and every field other than status as
\* they were stored, and when it is answered 200 the status is the one
\* asked for.
C27_StatusOnly ==
    [][ \A found \in findByIdResults(rentals), body \in MixedPatches :
          Ensures( /\ resp'.op = "PUT"
                   /\ found # {}
                   /\ Has(body, "status")
                   /\ body.status \in {"cancelled", "completed"}
                   /\ DOMAIN body # {"status"},
                   UpdateRental(Admin, found, body),
                   \E doc \in BagToSet(rentals') :
                     /\ rentals' = replaceOne(rentals, TheDoc(found), doc)
                     /\ doc.additionalDrivers = TheDoc(found).additionalDrivers
                     /\ doc.insuranceOption = TheDoc(found).insuranceOption
                     /\ \A k \in (DOMAIN doc) \ {"status"} :
                           doc[k] = TheDoc(found)[k]
                     /\ resp'.code = 200 => doc.status = body.status )
      ]_vars

\* C27 witness: a rental whose drivers and insurance had been patched was
\* just completed by a body that carried other drivers or insurance, and
\* has the values stored before.
C27_Witness ==
    /\ resp.op = "PUT" /\ resp.code = 200
    /\ \E r \in BagToSet(rentals) :
          /\ r.status = "completed"
          /\ r.additionalDrivers = 2 /\ r.insuranceOption = "full"


OwnedBy(store, u) ==
    [r \in { x \in BagToSet(store) : x.user = u } |-> store[r]]

\* C29: a principal that is no administrator gets from the rental list,
\* for every status filter, page and limit, exactly the responses it gets
\* from the store that holds its own rentals and no others, and every
\* rental in them is its own; a single-rental read of a stored rental is
\* answered 403 without data exactly when the principal is neither an
\* administrator nor the owner.  The comparison of the two stores is made
\* once per state, on the step of an unauthenticated list request, which
\* every state has.
C29_OwnRentalsOnly ==
    [][ /\ \A status \in StatusFilters, page \in Pages, limit \in Limits :
              /\ resp'.op = "GET" /\ resp'.code = 401
                   => handleGet(rentals, Customer, status, page, limit)
                       = handleGet(OwnedBy(rentals, Customer.sub), Customer,
                                   status, page, limit)
              /\ Ensures( resp'.op = "GET",
                          GetRentals(Customer, status, page, limit, resp'),
                          /\ resp'.code = 200
                          /\ \A r \in BagToSet(resp'.data) :
                                r.user = Customer.sub
                          /\ resp'.totalItems
                               = BagCardinality(
                                   findRentals(OwnedBy(rentals, Customer.sub),
                                               Customer, status)) )
        /\ \A principal \in {Customer, Admin},
              found \in findByIdResults(rentals) :
              Ensures( resp'.op = "rentals/id.GET" /\ found # {},
                       GetRental(principal, found),
                       /\ (resp'.code = 403)
                            <=> ( /\ principal.role # "admin"
                                  /\ TheDoc(found).user # principal.sub )
                       /\ resp'.code = 403 => ~Has(resp', "data")
                       /\ Has(resp', "data")
                            => resp'.data = SetToBag(found) )
      ]_vars

\* C29 witness: rentals of the customer and of another user are stored and
\* the list just answered holds a rental, each of them the customer's.
C29_Witness ==
    /\ resp.op = "GET" /\ resp.code = 200
    /\ \E r \in BagToSet(rentals) : r.user = Customer.sub
    /\ \E r \in BagToSet(rentals) : r.user # Customer.sub
    /\ resp.data # EmptyBag
    /\ \A r \in BagToSet(resp.data) : r.user = Customer.sub


\* A body without the user and the totalCost its client sent.
Untampered(body) == Without(Without(With(body, [user |-> "", totalCost |-> 0]),
                                    "user"), "totalCost")

\* C30: in every state, a createRental request that stores a rental stores
\* one whose user is the subject of the principal and whose totalCost is
\* the whole days of the window times the dailyRate of the vehicle; two
\* requests of one principal that differ only in user or totalCost and
\* that both store a rental store the same one, and get the same response
\* and store when the user differs or the totalCost is one the request
\* schema accepts (a body without totalCost, or with a negative one, is
\* answered 400 and stores nothing).
C30_ServerFixedFields ==
    \A principal \in {Customer, Admin}, b1 \in TamperBodies :
      LET o1 == handlePost(rentals, vehicles, principal, b1) IN
      /\ o1[1].code = 201
           => \E doc \in BagToSet(o1[2]), v \in vehicles :
                /\ o1[2] = insertOne(rentals, doc)
                /\ doc.user = principal.sub
                /\ v.id = b1.vehicleId
                /\ doc.totalCost
                     = WholeDays(b1.endDate - b1.startDate) * v.dailyRate
      /\ o1[1].code # 201 => o1[2] = rentals
      /\ \A b2 \in TamperBodies :
            Untampered(b1) = Untampered(b2)
              => LET o2 == handlePost(rentals, vehicles, principal, b2) IN
                 /\ (o1[1].code = 201 /\ o2[1].code = 201) => o1[2] = o2[2]
                 /\ (yupValid(b1) /\ yupValid(b2)) => o1 = o2

\* C30 witness: a request that carried a user and a totalCost of its own
\* was just answered 201, and the rental of the customer is stored with a
\* cost that is a positive number of dailyRates.
C30_Witness ==
    /\ resp.op = "POST" /\ resp.code = 201
    /\ \E r \in BagToSet(rentals), v \in vehicles :
          /\ r.user = Customer.sub /\ r.vehicle = v.id
          /\ r.totalCost = WholeDays(r.endDate - r.startDate) * v.dailyRate
          /\ r.totalCost \notin {0, 7}

====
